---------------------------- MODULE Spec2Model ----------------------------
(***************************************************************************)
(* moka-more, src/future: RowCache, a read-through row cache.              *)
(*                                                                         *)
(* RowCache::try_get hands the key and a load closure (one sqlx            *)
(* fetch_optional, mapped through W::from) to the engine's try_get_with.   *)
(* The engine (moka::future::Cache, reached through self.cache and through *)
(* Deref) is modelled by the contract RowCache relies on: a fast-path      *)
(* read, one waiter slot per key that coalesces concurrent loads, a second *)
(* read by the caller that owns the waiter slot, insertion of an Ok        *)
(* outcome under the expiry policy, no insertion of an Err outcome, and    *)
(* expiry at the earliest of the per-entry deadline, time-to-live (since   *)
(* the last write) and time-to-idle (since the last access).               *)
(*                                                                         *)
(* RowCache::try_get_by_ref does the same with a borrowed key; the owned   *)
(* keys made from it are counted. Dropping the future of a call cancels    *)
(* it: a parked call just leaves, the owner of a waiter slot releases it   *)
(* (its load closure is dropped with it) and the parked calls try again.   *)
(* The builder's calls are actions of their own before build().            *)
(*                                                                         *)
(* Time is discrete; one unit is the 100 ms step of src/future/test.rs.    *)
(* Entries carry ages instead of timestamps (time since last write, time   *)
(* since last access, time left on the per-entry deadline); Tick advances  *)
(* them and drops what has expired, which is what every engine read        *)
(* observes.                                                               *)
(***************************************************************************)
EXTENDS Integers, Sequences, FiniteSets, TLC

\* ------------------------------------------------------------------ bounds
NumCallers == 3
MaxAge == 4
MaxDur == 3

\* --------------------------------------------------------------- constants
\* test.rs: tti = 200 ms, ttl = 300 ms, ttl_for_none = 100 ms (unit: 100 ms)
TestTti == 2
TestTtl == 3
TestTtlForNone == 1
TestCapacity == 512
\* DefaultExpiry::default(): Duration::from_secs(60), in the same unit
DefaultTtlForNone == 600

Callers == 1..NumCallers
\* the durations handed to the builder
Durations == 1..MaxDur
Capacities == {1, TestCapacity}
\* keys looked up by the test: -1 has no row, 0 has one
Keys == {-1, 0}

\* ------------------------------------------------------------ Option<T>
None == <<>>
Some(x) == <<x>>
IsSome(o) == Len(o) = 1
Unwrap(o) == o[1]

Min(a, b) == IF a < b THEN a ELSE b

\* ------------------------------------------------------------ K and &Q
\* K: Borrow<Q>, for the test's key type i64 (impl<T> Borrow<T> for T): a
\* reference to the key
Borrow(k) == [ref |-> k]

\* Q: ToOwned<Owned = K>, for i64 (impl<T: Clone> ToOwned for T): a new owned
\* key, the clone of what the reference points to
ToOwned(q) == q.ref

\* the key that hashes and compares equal to the borrowed q
KeyOf(q) == CHOOSE k \in Keys : Borrow(k) = q

\* ------------------------------------------------------------ rows, W
\* Cake::new(id)
Cake(id) == [id |-> id, name |-> "berry delight", fruit_id |-> 42]

\* W::from(V) for the default W = Arc<V>
WFrom(v) == [arc |-> v]

\* .map(|o| o.map(W::from)) on the Ok side of fetch_optional
MapRow(o) == IF IsSome(o) THEN Some(WFrom(Unwrap(o))) ELSE None

\* ------------------------------------------------------------ results
NoErr == 0
Ok(v) == [tag |-> "Ok", val |-> v, err |-> NoErr]
\* Err(Arc<sqlx::Error>): the Arc is identified by the caller whose load failed
Err(e) == [tag |-> "Err", val |-> None, err |-> e]
NoResult == [tag |-> "-", val |-> None, err |-> NoErr]

VARIABLES
    tasks,      \* the tasks that call try_get on the shared cache
    keys,       \* the keys they look up
    cfg,        \* the built cache's configuration (time_to_idle, time_to_live, expiry)
    db,         \* the table: key -> Option<row>
    cache,      \* the engine's entry map: key -> entry
    waiter,     \* the engine's waiter slot per key: 0, or the caller that owns it
    pc,         \* each caller's position inside try_get: "idle", "missed",
                \* "owner", "loading", "waiting" (parked on the waiter
                \* slot), "woken" (the load it was parked on was published,
                \* its future has not been polled since), "done"
    key,        \* the key of each caller's current call
    result,     \* what each caller's call returned; for a parked call that
                \* was woken and not yet polled, the outcome in the waiter
                \* cell it holds
    via,        \* how each caller's call was served: "hit", "recheck", "load", "wait",
                \* or how it was cancelled: "dropped" (it owned no waiter
                \* slot), "aborted" (it owned one); "retry" while the call
                \* tries again after the load it was parked on was dropped
    loads,      \* per key: loader invocations since the key last lost its entry,
                \* last failed to load or was last invalidated (history,
                \* saturating at 2)
    held,       \* per caller: the borrowed key (&Q) its current call was
                \* given, None for a call by owned key
    owned       \* per caller: owned keys made from the borrowed key by its
                \* current call (to_owned)

vars == <<tasks, keys, cfg, db, cache, waiter, pc, key, result, via, loads,
          held, owned>>

\* the caller's current call is try_get_by_ref
ByRef(c) == IsSome(held[c])

\* ------------------------------------------------------------ builder.rs
\* DefaultExpiry::new
DefaultExpiry(ttl_for_none) == [ttl_for_none |-> ttl_for_none]

\* mutant: the None arm is missing, every entry defers to the cache-wide rules
expire_after_createNoArm(expiry, k, value) == None

\* DefaultExpiry::expire_after_create: the per-entry lifetime of a new entry
expire_after_create(expiry, k, value) ==
    IF IsSome(value) THEN None ELSE Some(expiry.ttl_for_none)

\* an Expiry implementation of the cache's user: every new entry, present or
\* absent, lives for the given duration (reads and updates leave it alone)
CustomExpiry(duration) == [lifetime |-> duration]

\* Expiry::expire_after_create of whichever policy the cache was built with
Expiry_expire_after_create(expiry, k, value) ==
    IF DOMAIN expiry = {"ttl_for_none"}
    THEN expire_after_create(expiry, k, value)
    ELSE Some(expiry.lifetime)

\* impl QueryBuilder for Sqlite
QUOTE == "\""
PLACEHOLDER == "?"

\* RowCacheBuilder::for_table: the query made from the table and its key column
for_table_query(table, id) ==
    "SELECT * FROM " \o QUOTE \o table \o QUOTE
        \o " WHERE " \o QUOTE \o id \o QUOTE \o " = " \o PLACEHOLDER

\* RowCacheBuilder::new(.., "cakes") of the test: the key column is "id"
TestQuery == for_table_query("cakes", "id")

\* mutant: the default absent-lifetime is a tenth of the 60 seconds
for_queryShort ==
    [max_capacity |-> TestCapacity, query |-> TestQuery,
     time_to_idle |-> None, time_to_live |-> None,
     expiry |-> DefaultExpiry(DefaultTtlForNone \div 10)]

\* RowCacheBuilder::for_query: CacheBuilder::new(..).expire_after(DefaultExpiry::default())
for_query ==
    [max_capacity |-> TestCapacity, query |-> TestQuery,
     time_to_idle |-> None, time_to_live |-> None,
     expiry |-> DefaultExpiry(DefaultTtlForNone)]

time_to_idle(builder, duration) == [builder EXCEPT !.time_to_idle = Some(duration)]

time_to_live(builder, duration) == [builder EXCEPT !.time_to_live = Some(duration)]

\* mutant: the absent-lifetime is added to the policy already in the slot
time_to_live_for_noneMerges(builder, duration) ==
    [builder EXCEPT !.expiry =
        [f \in DOMAIN @ \cup {"ttl_for_none"} |->
            IF f = "ttl_for_none" THEN duration ELSE @[f]]]

time_to_live_for_none(builder, duration) ==
    [builder EXCEPT !.expiry = DefaultExpiry(duration)]

\* impl_wrapper!: builder.inner = builder.inner.expire_after(expiry)
expire_after(builder, expiry) == [builder EXCEPT !.expiry = expiry]

\* impl_wrapper!: builder.inner = builder.inner.max_capacity(max_capacity)
max_capacity(builder, capacity) == [builder EXCEPT !.max_capacity = capacity]

\* RowCacheBuilder::build: the engine takes the builder's settings as they are
build(builder) == builder

\* the cache the test builds
TestCache ==
    build(time_to_live_for_none(
              time_to_live(time_to_idle(for_query, TestTti), TestTtl),
              TestTtlForNone))

\* ------------------------------------------------------------ engine entries
\* origin records how the entry was stored: by a load of try_get, or by the
\* engine's writers called through Deref
Empty ==
    [live |-> FALSE, val |-> None, sinceWrite |-> 0, sinceAccess |-> 0,
     expIn |-> None, origin |-> "-"]

\* mutant: time-to-live is measured from the last access
ExpiredSinceAccess(c, e) ==
    \/ IsSome(e.expIn) /\ Unwrap(e.expIn) <= 0
    \/ IsSome(c.time_to_live) /\ e.sinceAccess >= Unwrap(c.time_to_live)
    \/ IsSome(c.time_to_idle) /\ e.sinceAccess >= Unwrap(c.time_to_idle)

\* the entry is past one of its deadlines
Expired(c, e) ==
    \/ IsSome(e.expIn) /\ Unwrap(e.expIn) <= 0
    \/ IsSome(c.time_to_live) /\ e.sinceWrite >= Unwrap(c.time_to_live)
    \/ IsSome(c.time_to_idle) /\ e.sinceAccess >= Unwrap(c.time_to_idle)

\* Cache::get as seen by a caller: None (no entry) or Some(the stored Option<W>)
CacheGet(m, k) == IF m[k].live THEN Some(m[k].val) ELSE None

\* Cache::get with a borrowed key
CacheGetByRef(m, q) == CacheGet(m, KeyOf(q))

\* mutant: a read leaves the idle age running
TouchNothing(e) == e

\* mutant: a read restarts the per-entry deadline
TouchRenews(e) ==
    [e EXCEPT !.sinceAccess = 0,
              !.expIn = IF IsSome(@) THEN Some(Unwrap(@) + e.sinceWrite)
                        ELSE None]

\* a read records the access; Expiry::expire_after_read is not overridden by
\* DefaultExpiry, so the per-entry deadline stays as it is
Touch(e) == [e EXCEPT !.sinceAccess = 0]

AfterRead(m, k) == IF m[k].live THEN [m EXCEPT ![k] = Touch(m[k])] ELSE m

\* Cache::insert: a new entry takes its deadline from expire_after_create; an
\* existing entry keeps its deadline (Expiry::expire_after_update is not
\* overridden by DefaultExpiry) and restarts both ages
Stored(c, old, k, value, origin) ==
    [live |-> TRUE, val |-> value, sinceWrite |-> 0, sinceAccess |-> 0,
     expIn |-> IF old.live THEN old.expIn
               ELSE Expiry_expire_after_create(c.expiry, k, value),
     origin |-> origin]

CacheInsert(c, m, k, value, origin) ==
    [m EXCEPT ![k] = Stored(c, m[k], k, value, origin)]

\* one time unit later
Aged(e) ==
    [e EXCEPT !.sinceWrite = Min(@ + 1, MaxAge),
              !.sinceAccess = Min(@ + 1, MaxAge),
              !.expIn = IF IsSome(@) THEN Some(Unwrap(@) - 1) ELSE None]

AfterTick(c, e) ==
    IF ~e.live THEN e
    ELSE IF Expired(c, Aged(e)) THEN Empty ELSE Aged(e)

\* ------------------------------------------------------------ history
Bump(n) == Min(n + 1, 2)

\* keys whose entry is gone in m2 start a new miss episode
AfterRemoval(l, m1, m2) ==
    [k \in Keys |-> IF m1[k].live /\ ~m2[k].live THEN 0 ELSE l[k]]

\* ------------------------------------------------------------ the table
\* every table over Keys: a key has its row or none
Tables ==
    {[k \in Keys |-> IF k \in S THEN Some(Cake(k)) ELSE None] : S \in SUBSET Keys}

\* the table of the test: no row for -1, a row for 0
TestTable == [k \in Keys |-> IF k >= 0 THEN Some(Cake(k)) ELSE None]

\* mutant: the query is bound to another key
fetch_optionalOtherKey(table, k) == table[-k - 1]

\* sqlx::query_as(..).bind(key).fetch_optional(&pool) when the database answers
fetch_optional(table, k) == table[k]

\* the load closure's outcomes: the mapped row, or the database's error
LoadOutcomes(table, k, c) == {Ok(MapRow(fetch_optional(table, k))), Err(c)}

\* ------------------------------------------------------------ Init
\* a cache with settings b and no entries, over one of the given tables
Fresh(b, ts, ks, tables) ==
    /\ tasks = ts
    /\ keys = ks
    /\ cfg = b
    /\ db \in tables
    /\ cache = [k \in Keys |-> Empty]
    /\ waiter = [k \in Keys |-> 0]
    /\ pc = [c \in Callers |-> "idle"]
    /\ key = [c \in Callers |-> 0]
    /\ result = [c \in Callers |-> NoResult]
    /\ via = [c \in Callers |-> "-"]
    /\ loads = [k \in Keys |-> 0]
    /\ held = [c \in Callers |-> None]
    /\ owned = [c \in Callers |-> 0]

\* the cache of the test, just built
Start(ts, ks, tables) == Fresh(TestCache, ts, ks, tables)

\* RowCacheBuilder::for_query has returned: no task holds a cache yet
InitConfig == \E k \in Keys : Fresh(for_query, {}, {k}, {TestTable})

\* two tasks, both keys, any table
Init == Start({c \in Callers : c <= 2}, Keys, Tables)

\* every task hammers one key, which has its row or none
InitFlight ==
    \E k \in Keys :
        Start(Callers, {k}, {t \in Tables : \A j \in Keys \ {k} : t[j] = None})

\* two tasks, both keys, the table of the test: no row for -1, a row for 0
InitEngine ==
    Start({c \in Callers : c <= 2}, Keys,
          {[k \in Keys |-> IF k >= 0 THEN Some(Cake(k)) ELSE None]})

\* three tasks hammer one key, the table of the test: a call that loads, a
\* call parked on it and a third that comes at any moment
Trio == {c \in Callers : c <= 3}

InitLive == \E k \in Keys : Start(Trio, {k}, {TestTable})

\* ------------------------------------------------------------ try_get
\* callers parked on the waiter slot of k
Waiting(k) == {w \in Callers : pc[w] = "waiting" /\ key[w] = k}

\* mutant: a failure is not shared, every parked caller gets an error of its own
ResolveOwnCopies(c, k, r, how) ==
    /\ waiter' = [waiter EXCEPT ![k] = 0]
    /\ via' = [via EXCEPT ![c] = how]
    /\ pc' = [w \in Callers |-> IF w = c THEN "done"
                                 ELSE IF w \in Waiting(k) THEN "woken"
                                 ELSE pc[w]]
    /\ result' = [w \in Callers |->
                     IF w = c THEN r
                     ELSE IF w \in Waiting(k)
                          THEN (IF r.tag = "Err" THEN Err(w) ELSE r)
                          ELSE result[w]]

\* mutant: only the owner returns, the parked callers are never woken
ResolveOwnerOnly(c, k, r, how) ==
    /\ waiter' = [waiter EXCEPT ![k] = 0]
    /\ via' = [via EXCEPT ![c] = how]
    /\ pc' = [pc EXCEPT ![c] = "done"]
    /\ result' = [result EXCEPT ![c] = r]

\* the owner of k's waiter slot publishes r and releases the slot: the owner
\* returns r in this poll; the parked callers are woken with r in the waiter
\* cell they hold, and each returns it when its own future is polled
Resolve(c, k, r, how) ==
    /\ waiter' = [waiter EXCEPT ![k] = 0]
    /\ via' = [via EXCEPT ![c] = how]
    /\ pc' = [w \in Callers |-> IF w = c THEN "done"
                                 ELSE IF w \in Waiting(k) THEN "woken"
                                 ELSE pc[w]]
    /\ result' = [w \in Callers |-> IF w = c \/ w \in Waiting(k) THEN r ELSE result[w]]

\* mutant: the fast path serves present entries only, a cached None is a miss
try_getPresentOnly(c, k) ==
    /\ c \in tasks /\ k \in keys
    /\ pc[c] = "idle"
    /\ key' = [key EXCEPT ![c] = k]
    /\ IF Len(CacheGet(cache, k)) = 1 /\ IsSome(Unwrap(CacheGet(cache, k)))
       THEN /\ cache' = AfterRead(cache, k)
            /\ pc' = [pc EXCEPT ![c] = "done"]
            /\ result' = [result EXCEPT ![c] = Ok(Unwrap(CacheGet(cache, k)))]
            /\ via' = [via EXCEPT ![c] = "hit"]
       ELSE /\ pc' = [pc EXCEPT ![c] = "missed"]
            /\ via' = [via EXCEPT ![c] = "-"]
            /\ UNCHANGED <<cache, result>>
    /\ held' = [held EXCEPT ![c] = None]
    /\ UNCHANGED <<tasks, keys, cfg, db, owned, waiter, loads>>

\* try_get_with(key, load): the engine's fast path. A live entry is returned
\* at once; otherwise the call goes on to the waiter slot
FastPath(c, k) ==
    /\ c \in tasks /\ k \in keys
    /\ pc[c] = "idle"
    /\ key' = [key EXCEPT ![c] = k]
    /\ IF IsSome(CacheGet(cache, k))
       THEN /\ cache' = AfterRead(cache, k)
            /\ pc' = [pc EXCEPT ![c] = "done"]
            /\ result' = [result EXCEPT ![c] = Ok(Unwrap(CacheGet(cache, k)))]
            /\ via' = [via EXCEPT ![c] = "hit"]
       ELSE /\ pc' = [pc EXCEPT ![c] = "missed"]
            /\ via' = [via EXCEPT ![c] = "-"]
            /\ UNCHANGED <<cache, result>>
    /\ UNCHANGED <<tasks, keys, cfg, db, waiter, loads>>

\* RowCache::try_get(key): the key is cloned for the engine and moved into the
\* load closure
try_get(c, k) ==
    /\ FastPath(c, k)
    /\ held' = [held EXCEPT ![c] = None]
    /\ UNCHANGED owned

\* mutant: the owned key is made before the cache is looked at
try_get_by_refEager(c, q) ==
    /\ c \in tasks /\ \E k \in keys : q = Borrow(k)
    /\ pc[c] = "idle"
    /\ held' = [held EXCEPT ![c] = Some(q)]
    /\ key' = [key EXCEPT ![c] = ToOwned(q)]
    /\ owned' = [owned EXCEPT ![c] = 1]
    /\ IF IsSome(CacheGet(cache, ToOwned(q)))
       THEN /\ cache' = AfterRead(cache, ToOwned(q))
            /\ pc' = [pc EXCEPT ![c] = "done"]
            /\ result' = [result EXCEPT ![c] =
                              Ok(Unwrap(CacheGet(cache, ToOwned(q))))]
            /\ via' = [via EXCEPT ![c] = "hit"]
       ELSE /\ pc' = [pc EXCEPT ![c] = "missed"]
            /\ via' = [via EXCEPT ![c] = "-"]
            /\ UNCHANGED <<cache, result>>
    /\ UNCHANGED <<tasks, keys, cfg, db, waiter, loads>>

\* RowCache::try_get_by_ref(&key): the engine looks the borrowed key up; on a
\* miss it makes the owned key of its waiter slot and entry from it
try_get_by_ref(c, q) ==
    /\ c \in tasks /\ \E k \in keys : q = Borrow(k)
    /\ pc[c] = "idle"
    /\ held' = [held EXCEPT ![c] = Some(q)]
    /\ IF IsSome(CacheGetByRef(cache, q))
       THEN /\ key' = [key EXCEPT ![c] = KeyOf(q)]
            /\ cache' = AfterRead(cache, KeyOf(q))
            /\ pc' = [pc EXCEPT ![c] = "done"]
            /\ result' = [result EXCEPT ![c] = Ok(Unwrap(CacheGetByRef(cache, q)))]
            /\ via' = [via EXCEPT ![c] = "hit"]
            /\ UNCHANGED owned
       ELSE /\ key' = [key EXCEPT ![c] = ToOwned(q)]
            /\ pc' = [pc EXCEPT ![c] = "missed"]
            /\ owned' = [owned EXCEPT ![c] = 1]
            /\ via' = [via EXCEPT ![c] = "-"]
            /\ UNCHANGED <<cache, result>>
    /\ UNCHANGED <<tasks, keys, cfg, db, waiter, loads>>

\* mutant: no coalescing, every missing call takes the slot and loads
AttachAlone(c) ==
    /\ pc[c] = "missed"
    /\ waiter' = [waiter EXCEPT ![key[c]] = c]
    /\ pc' = [pc EXCEPT ![c] = "owner"]
    /\ UNCHANGED <<tasks, keys, cfg, db, held, owned,
                   cache, key, result, via, loads>>

\* the call takes the key's waiter slot if it is free, and parks on it if not
Attach(c) ==
    /\ pc[c] = "missed"
    /\ IF waiter[key[c]] = 0
       THEN /\ waiter' = [waiter EXCEPT ![key[c]] = c]
            /\ pc' = [pc EXCEPT ![c] = "owner"]
       ELSE /\ pc' = [pc EXCEPT ![c] = "waiting"]
            /\ UNCHANGED waiter
    /\ UNCHANGED <<tasks, keys, cfg, db, held, owned,
                   cache, key, result, via, loads>>

\* the slot's owner reads the cache once more, without recording the read:
\* an entry stored meanwhile is published without a load; otherwise the load
\* closure starts (the query is sent; in try_get_by_ref the closure binds
\* key.to_owned())
Recheck(c) ==
    /\ pc[c] = "owner"
    /\ IF IsSome(CacheGet(cache, key[c]))
       THEN /\ Resolve(c, key[c], Ok(Unwrap(CacheGet(cache, key[c]))), "recheck")
            /\ UNCHANGED <<cache, loads, owned>>
       ELSE /\ pc' = [pc EXCEPT ![c] = "loading"]
            /\ loads' = [loads EXCEPT ![key[c]] = Bump(@)]
            /\ owned' = [owned EXCEPT ![c] = IF ByRef(c) THEN @ + 1 ELSE @]
            /\ UNCHANGED <<cache, waiter, result, via>>
    /\ UNCHANGED <<tasks, keys, cfg, db, held, key>>

\* mutant: a failed load is remembered as "no row"
CompleteCachingFailure(c, r) ==
    /\ cache' = CacheInsert(cfg, cache, key[c], r.val, "load")
    /\ loads' = IF r.tag = "Ok" THEN loads ELSE [loads EXCEPT ![key[c]] = 0]
    /\ Resolve(c, key[c], r, "load")

\* mutant: only found rows are stored, "no row" is returned and forgotten
CompleteFoundOnly(c, r) ==
    /\ IF r.tag = "Ok" /\ IsSome(r.val)
       THEN /\ cache' = CacheInsert(cfg, cache, key[c], r.val, "load")
            /\ UNCHANGED loads
       ELSE /\ loads' = [loads EXCEPT ![key[c]] = 0]
            /\ UNCHANGED cache
    /\ Resolve(c, key[c], r, "load")

\* mutant: after a failure the owner keeps the slot and goes for another load
CompleteRetrying(c, r) ==
    IF r.tag = "Ok"
    THEN /\ cache' = CacheInsert(cfg, cache, key[c], r.val, "load")
         /\ UNCHANGED loads
         /\ Resolve(c, key[c], r, "load")
    ELSE /\ pc' = [pc EXCEPT ![c] = "owner"]
         /\ UNCHANGED <<cache, loads, waiter, via, result>>

\* the load closure returns r: Ok is inserted and published, Err only published
Complete(c, r) ==
    /\ IF r.tag = "Ok"
       THEN /\ cache' = CacheInsert(cfg, cache, key[c], r.val, "load")
            /\ UNCHANGED loads
       ELSE /\ loads' = [loads EXCEPT ![key[c]] = 0]
            /\ UNCHANGED cache
    /\ Resolve(c, key[c], r, "load")

\* the load closure of try_get completes: the query was bound to the key
\* moved into the closure
LoadDone(c) ==
    /\ pc[c] = "loading" /\ ~ByRef(c)
    /\ \E r \in LoadOutcomes(db, key[c], c) : Complete(c, r)
    /\ UNCHANGED <<tasks, keys, cfg, db, held, owned, key>>

\* mutant: the closure of try_get_by_ref binds no key of its own, the query
\* runs with the key type's default
LoadDoneByRefDefaultKey(c) ==
    /\ pc[c] = "loading" /\ ByRef(c)
    /\ \E r \in LoadOutcomes(db, 0, c) : Complete(c, r)
    /\ UNCHANGED <<tasks, keys, cfg, db, held, owned, key>>

\* the load closure of try_get_by_ref completes: the query was bound to
\* key.to_owned() of the borrowed key the call was given
LoadDoneByRef(c) ==
    /\ pc[c] = "loading" /\ ByRef(c)
    /\ \E r \in LoadOutcomes(db, ToOwned(Unwrap(held[c])), c) : Complete(c, r)
    /\ UNCHANGED <<tasks, keys, cfg, db, held, owned, key>>

\* the future of a woken call is polled: it reads the outcome in the waiter
\* cell and returns it
ReadWaiter(c) ==
    /\ pc[c] = "woken"
    /\ pc' = [pc EXCEPT ![c] = "done"]
    /\ via' = [via EXCEPT ![c] = "wait"]
    /\ UNCHANGED result
    /\ UNCHANGED <<tasks, keys, cfg, db, cache, waiter, key, loads, held, owned>>

\* the call's result has been taken; the caller may call again
Return(c) ==
    /\ pc[c] = "done"
    /\ pc' = [pc EXCEPT ![c] = "idle"]
    /\ result' = [result EXCEPT ![c] = NoResult]
    /\ key' = [key EXCEPT ![c] = 0]
    /\ via' = [via EXCEPT ![c] = "-"]
    /\ held' = [held EXCEPT ![c] = None]
    /\ owned' = [owned EXCEPT ![c] = 0]
    /\ UNCHANGED <<tasks, keys, cfg, db, cache, waiter, loads>>

\* ------------------------------------------------------------ the builder
\* the builder's calls, made before build() hands the cache to a task
SetTimeToIdle(d) ==
    /\ tasks = {}
    /\ cfg' = time_to_idle(cfg, d)
    /\ UNCHANGED <<tasks, keys, db, cache, waiter, pc, key, result, via, loads,
                   held, owned>>

SetTimeToLive(d) ==
    /\ tasks = {}
    /\ cfg' = time_to_live(cfg, d)
    /\ UNCHANGED <<tasks, keys, db, cache, waiter, pc, key, result, via, loads,
                   held, owned>>

SetTimeToLiveForNone(d) ==
    /\ tasks = {}
    /\ cfg' = time_to_live_for_none(cfg, d)
    /\ UNCHANGED <<tasks, keys, db, cache, waiter, pc, key, result, via, loads,
                   held, owned>>

SetExpireAfter(expiry) ==
    /\ tasks = {}
    /\ cfg' = expire_after(cfg, expiry)
    /\ UNCHANGED <<tasks, keys, db, cache, waiter, pc, key, result, via, loads,
                   held, owned>>

SetMaxCapacity(capacity) ==
    /\ tasks = {}
    /\ cfg' = max_capacity(cfg, capacity)
    /\ UNCHANGED <<tasks, keys, db, cache, waiter, pc, key, result, via, loads,
                   held, owned>>

Build ==
    /\ tasks = {}
    /\ cfg' = build(cfg)
    /\ tasks' = {1}
    /\ UNCHANGED <<keys, db, cache, waiter, pc, key, result, via, loads,
                   held, owned>>

\* ------------------------------------------------------------ cancellation
\* mutant: dropping a parked call releases the waiter slot it was parked on
CancelWaiterFreesSlot(c) ==
    /\ pc[c] \in {"missed", "waiting", "woken"}
    /\ pc' = [pc EXCEPT ![c] = "idle"]
    /\ key' = [key EXCEPT ![c] = 0]
    /\ via' = [via EXCEPT ![c] = "dropped"]
    /\ result' = [result EXCEPT ![c] = NoResult]
    /\ held' = [held EXCEPT ![c] = None]
    /\ owned' = [owned EXCEPT ![c] = 0]
    /\ waiter' = [waiter EXCEPT ![key[c]] = 0]
    /\ UNCHANGED <<tasks, keys, cfg, db, cache, loads>>

\* the future of a call that owns no waiter slot is dropped: the call is
\* gone, also when it was woken and the outcome was waiting for it
CancelWaiter(c) ==
    /\ pc[c] \in {"missed", "waiting", "woken"}
    /\ pc' = [pc EXCEPT ![c] = "idle"]
    /\ key' = [key EXCEPT ![c] = 0]
    /\ via' = [via EXCEPT ![c] = "dropped"]
    /\ result' = [result EXCEPT ![c] = NoResult]
    /\ held' = [held EXCEPT ![c] = None]
    /\ owned' = [owned EXCEPT ![c] = 0]
    /\ UNCHANGED <<tasks, keys, cfg, db, cache, waiter, loads>>

\* mutant: the slot is released but the dropped call's load closure runs on
CancelOwnerDetached(c) ==
    /\ pc[c] \in {"owner", "loading"}
    /\ waiter' = [waiter EXCEPT ![key[c]] = 0]
    /\ pc' = [w \in Callers |-> IF w \in Waiting(key[c]) THEN "missed" ELSE pc[w]]
    /\ UNCHANGED <<tasks, keys, cfg, db, held, owned, cache, key, result, via,
                   loads>>

\* mutant: the slot is released but nobody wakes the parked callers
CancelOwnerLeavesParked(c) ==
    /\ pc[c] \in {"owner", "loading"}
    /\ waiter' = [waiter EXCEPT ![key[c]] = 0]
    /\ pc' = [pc EXCEPT ![c] = "idle"]
    /\ key' = [key EXCEPT ![c] = 0]
    /\ via' = [via EXCEPT ![c] = "aborted"]
    /\ held' = [held EXCEPT ![c] = None]
    /\ owned' = [owned EXCEPT ![c] = 0]
    /\ UNCHANGED <<tasks, keys, cfg, db, cache, result, loads>>

\* the future of the call that owns the waiter slot is dropped, and its load
\* closure with it: the slot is released and the parked callers try again
\* (they are marked "retry" until their call is resolved)
CancelOwner(c) ==
    /\ pc[c] \in {"owner", "loading"}
    /\ waiter' = [waiter EXCEPT ![key[c]] = 0]
    /\ pc' = [w \in Callers |-> IF w = c THEN "idle"
                                 ELSE IF w \in Waiting(key[c]) THEN "missed"
                                 ELSE pc[w]]
    /\ key' = [key EXCEPT ![c] = 0]
    /\ via' = [w \in Callers |-> IF w = c THEN "aborted"
                                  ELSE IF w \in Waiting(key[c]) THEN "retry"
                                  ELSE via[w]]
    /\ held' = [held EXCEPT ![c] = None]
    /\ owned' = [owned EXCEPT ![c] = 0]
    /\ UNCHANGED <<tasks, keys, cfg, db, cache, result, loads>>

\* ------------------------------------------------------------ Deref: the engine
\* cache.get(&k)
Get(k) ==
    /\ cache[k].live
    /\ cache' = AfterRead(cache, k)
    /\ UNCHANGED <<tasks, keys, cfg, db, held, owned, waiter,
                   pc, key, result, via, loads>>

\* cache.invalidate(&k): the entry, if there is one, is removed. The waiter
\* slot is not the entry map's business: a load in flight goes on
Invalidate(k) ==
    /\ cache' = [cache EXCEPT ![k] = Empty]
    /\ loads' = [loads EXCEPT ![k] = 0]
    /\ UNCHANGED <<tasks, keys, cfg, db, held, owned,
                   waiter, pc, key, result, via>>

\* cache.invalidate_all()
InvalidateAll ==
    /\ cache' = [k \in Keys |-> Empty]
    /\ loads' = [k \in Keys |-> 0]
    /\ UNCHANGED <<tasks, keys, cfg, db, held, owned,
                   waiter, pc, key, result, via>>

\* cache.insert(k, v), cache.entry(k).and_upsert_with(|_| async { v }): v is
\* stored, over a live entry as an update
Insert(k, v) ==
    /\ cache' = CacheInsert(cfg, cache, k, v, "insert")
    /\ UNCHANGED <<tasks, keys, cfg, db, held, owned, waiter,
                   pc, key, result, via, loads>>

\* cache.get_with(k, async { v }), cache.entry(k).or_insert(v): a live entry
\* is read; otherwise v is stored (the initialising future is the user's and
\* is ready at once, it shares no waiter slot with try_get's loads)
GetWith(k, v) ==
    /\ cache' = IF cache[k].live THEN AfterRead(cache, k)
                ELSE CacheInsert(cfg, cache, k, v, "insert")
    /\ UNCHANGED <<tasks, keys, cfg, db, held, owned, waiter,
                   pc, key, result, via, loads>>

\* ------------------------------------------------------------ time
Tick ==
    /\ \E k \in Keys : cache[k].live
    /\ cache' = [k \in Keys |-> AfterTick(cfg, cache[k])]
    /\ loads' = AfterRemoval(loads, cache, cache')
    /\ UNCHANGED <<tasks, keys, cfg, db, held, owned,
                   waiter, pc, key, result, via>>

\* ------------------------------------------------------------ specifications
\* lookups, engine reads and invalidations, time
Next ==
    \/ \E c \in Callers, k \in Keys : try_get(c, k)
    \/ \E c \in Callers : Attach(c)
    \/ \E c \in Callers : Recheck(c)
    \/ \E c \in Callers : LoadDone(c)
    \/ \E c \in Callers : ReadWaiter(c)
    \/ \E c \in Callers : Return(c)
    \/ \E k \in Keys : Get(k)
    \/ \E k \in Keys : Invalidate(k)
    \/ InvalidateAll
    \/ Tick

Spec == Init /\ [][Next]_vars

SpecFlight == InitFlight /\ [][Next]_vars

\* the runtime polls every call that can move (tokio schedules every woken
\* task), and every load closure that has been started completes
Poll(c) ==
    Attach(c) \/ Recheck(c) \/ LoadDone(c) \/ LoadDoneByRef(c) \/ ReadWaiter(c)

Fairness == \A c \in Callers : WF_vars(Poll(c))

\* every task on one key, under that scheduling
SpecLive == InitLive /\ [][Next]_vars /\ Fairness

\* any sequence of builder calls, then one task on the built cache: lookups,
\* engine reads and time
NextConfig ==
    \/ \E d \in Durations : SetTimeToIdle(d)
    \/ \E d \in Durations : SetTimeToLive(d)
    \/ \E d \in Durations : SetTimeToLiveForNone(d)
    \/ Build
    \/ \E c \in Callers, k \in Keys : try_get(c, k)
    \/ \E c \in Callers : Attach(c)
    \/ \E c \in Callers : Recheck(c)
    \/ \E c \in Callers : LoadDone(c)
    \/ \E c \in Callers : Return(c)
    \/ \E k \in Keys : Get(k)
    \/ Tick

SpecConfig == InitConfig /\ [][NextConfig]_vars

\* the same, with the wrapped builder methods that set the expiry policy and
\* the capacity
NextPolicy ==
    \/ NextConfig
    \/ \E d \in Durations : SetExpireAfter(CustomExpiry(d))
    \/ \E n \in Capacities : SetMaxCapacity(n)

SpecPolicy == InitConfig /\ [][NextPolicy]_vars

\* lookups by owned and by borrowed key
NextRef ==
    \/ Next
    \/ \E c \in Callers, k \in Keys : try_get_by_ref(c, Borrow(k))
    \/ \E c \in Callers : LoadDoneByRef(c)

SpecRef == Init /\ [][NextRef]_vars

\* every task on one key, and any call may be cancelled
NextCancel ==
    \/ Next
    \/ \E c \in Callers : CancelWaiter(c)
    \/ \E c \in Callers : CancelOwner(c)

SpecCancel == InitLive /\ [][NextCancel]_vars

\* concurrent calls and cancellations alone (no reads through Deref, no
\* expiry), under the scheduling of SpecLive
NextAbort ==
    \/ \E c \in Callers, k \in Keys : try_get(c, k)
    \/ \E c \in Callers : Attach(c)
    \/ \E c \in Callers : Recheck(c)
    \/ \E c \in Callers : LoadDone(c)
    \/ \E c \in Callers : ReadWaiter(c)
    \/ \E c \in Callers : Return(c)
    \/ \E c \in Callers : CancelWaiter(c)
    \/ \E c \in Callers : CancelOwner(c)

\* the three tasks call for the one key that has a row in the test table
InitAbort == Start(Trio, {0}, {TestTable})

SpecAbort == InitAbort /\ [][NextAbort]_vars /\ Fairness

\* the same, where the odd tasks look up by owned key and the even tasks by
\* borrowed key
NextAll ==
    \/ \E c \in Callers, k \in Keys :
          IF c % 2 = 1 THEN try_get(c, k) ELSE try_get_by_ref(c, Borrow(k))
    \/ \E c \in Callers : Attach(c)
    \/ \E c \in Callers : Recheck(c)
    \/ \E c \in Callers : LoadDone(c)
    \/ \E c \in Callers : LoadDoneByRef(c)
    \/ \E c \in Callers : ReadWaiter(c)
    \/ \E c \in Callers : Return(c)
    \/ \E k \in Keys : Get(k)
    \/ \E k \in Keys : Invalidate(k)
    \/ InvalidateAll
    \/ Tick
    \/ \E c \in Callers : CancelWaiter(c)
    \/ \E c \in Callers : CancelOwner(c)

SpecAll == InitLive /\ [][NextAll]_vars

\* the values a user stores for k through Deref: either variant of Option<W>
Values(k) == {None, Some(WFrom(Cake(k)))}

\* lookups and time, with the engine's writers reached through Deref: the
\* unconditional ones (insert, the entry API's upsert) and the ones that
\* store only when the key has no entry (get_with, the entry API's or_insert)
NextEngine ==
    \/ \E c \in Callers, k \in Keys : try_get(c, k)
    \/ \E c \in Callers : Attach(c)
    \/ \E c \in Callers : Recheck(c)
    \/ \E c \in Callers : LoadDone(c)
    \/ \E c \in Callers : ReadWaiter(c)
    \/ \E c \in Callers : Return(c)
    \/ \E k \in Keys : \E v \in Values(k) : Insert(k, v)
    \/ \E k \in Keys : \E v \in Values(k) : GetWith(k, v)
    \/ Tick

SpecEngine == InitEngine /\ [][NextEngine]_vars

\* ------------------------------------------------------------ claims
Present(e) == e.live /\ IsSome(e.val)
Absent(e) == e.live /\ e.val = None
Loading(k) == {c \in Callers : pc[c] = "loading" /\ key[c] = k}

\* the step in which caller c's call returns from the engine
Returns(c) == pc[c] # "done" /\ pc'[c] = "done"

\* C1: single-flight. Between two moments at which a key is without an entry
\* to serve (the start, a failed load, an expiry, an invalidation) the loader
\* is invoked at most once for it, whatever the number and interleaving of the
\* callers, and callers parked on a key always have exactly one owner of its
\* waiter slot working for them.
C1_SingleFlight ==
    \A k \in Keys :
        /\ loads[k] <= 1
        /\ Waiting(k) # {} =>
              /\ waiter[k] \in Callers
              /\ key[waiter[k]] = k
              /\ pc[waiter[k]] \in {"owner", "loading"}

\* every caller but one is parked on the key while the one load runs
C1_Witness ==
    \E k \in Keys :
        /\ loads[k] = 1
        /\ Cardinality(Loading(k)) = 1
        /\ Cardinality(Waiting(k)) = NumCallers - 1

\* C2: the callers parked on a key's in-flight load leave it only together,
\* in the step in which the load's owner returns; all of them are woken with
\* the owner's outcome, the same Ok(value) or the same shared error, and each
\* returns exactly that outcome when it is polled, whatever happened to the
\* cache or the slot in between.
C2_SameOutcome ==
    [][/\ \A k \in Keys : \A w \in Waiting(k) :
             pc'[w] # "waiting" =>
                 /\ waiter[k] \in Callers
                 /\ Returns(waiter[k])
                 /\ result'[waiter[k]].tag \in {"Ok", "Err"}
                 /\ \A v \in Waiting(k) :
                       pc'[v] = "woken" /\ result'[v] = result'[waiter[k]]
       /\ \A w \in Callers :
             pc[w] = "woken" =>
                 /\ result'[w] = result[w]
                 /\ pc'[w] \in {"woken", "done"}
                 /\ pc'[w] = "done" => via'[w] = "wait"]_vars

\* two parked callers hold the error of a third caller's failed load
C2_Witness ==
    \E a, b \in Callers :
        /\ a # b /\ key[a] = key[b]
        /\ via[a] = "wait" /\ via[b] = "wait"
        /\ result[a].tag = "Err" /\ result[a] = result[b]
        /\ result[a].err \notin {a, b}

\* C3: a failed load returns the error to its caller, stores nothing (the
\* entry map is as before and holds no entry for the key), and the key is
\* back to needing a load: a call for a key without an entry is never served
\* from the cache, and the owner of the waiter slot then invokes the loader.
C3_FailureNotCached ==
    [][\A c \in Callers :
          /\ (pc[c] = "loading" /\ Returns(c) /\ result'[c].tag = "Err") =>
                /\ result'[c] = Err(c)
                /\ cache' = cache
                /\ ~cache'[key[c]].live
                /\ loads'[key[c]] = 0
          /\ (pc[c] = "idle" /\ pc'[c] # "idle" /\ ~cache[key'[c]].live) =>
                pc'[c] = "missed"
          /\ (pc[c] = "owner" /\ pc'[c] # "owner" /\ ~cache[key[c]].live) =>
                pc'[c] = "loading" /\ loads'[key[c]] = loads[key[c]] + 1]_vars

\* a caller holds its failed load's error while another call loads the key again
C3_Witness ==
    \E c, d \in Callers :
        /\ pc[c] = "done" /\ via[c] = "load" /\ result[c] = Err(c)
        /\ pc[d] = "loading" /\ key[d] = key[c]
        /\ ~cache[key[c]].live

\* C4: every entry held by the cache was stored by a completed, successful
\* load of its key; no other path of the public interface creates one.
C4_OnlyLoadsStore ==
    \A k \in Keys : cache[k].live => cache[k].origin = "load"

\* C5: a call that finds a live entry returns it at once (Some(W) for a
\* present marker, None for an absent one) and invokes no loader: it takes
\* no waiter slot and starts no load.
C5_HitPath ==
    [][\A c \in Callers :
          (pc[c] = "idle" /\ pc'[c] # "idle" /\ cache[key'[c]].live) =>
              /\ pc'[c] = "done"
              /\ result'[c] = Ok(cache[key'[c]].val)
              /\ loads' = loads
              /\ waiter' = waiter]_vars

\* a call was served from the entry an earlier load stored
C5_Witness ==
    \E c \in Callers :
        /\ pc[c] = "done" /\ via[c] = "hit"
        /\ cache[key[c]].live /\ cache[key[c]].origin = "load"
        /\ result[c] = Ok(cache[key[c]].val)
        /\ loads[key[c]] = 1

\* C6: cache-aside correctness. Every successful call for a key that has a
\* row returns the W made from that row, and every successful call for a key
\* without a row returns None, whether it loaded, waited or hit.
C6_CacheAside ==
    \A c \in Callers :
        (pc[c] = "done" /\ result[c].tag = "Ok") =>
            /\ IsSome(db[key[c]]) =>
                  result[c].val = Some([arc |-> Cake(key[c])])
            /\ db[key[c]] = None => result[c].val = None

\* one call loaded a row and another was served the same row from the cache
C6_Witness ==
    \E c, d \in Callers :
        /\ pc[c] = "done" /\ via[c] = "load" /\ IsSome(result[c].val)
        /\ pc[d] = "done" /\ via[d] = "hit" /\ key[d] = key[c]
        /\ result[d] = result[c]

\* C7: a load that finds no row returns Ok(None) and leaves an absent entry:
\* the engine's get yields Some(None), not None; the absent entry then stays
\* until it expires or is invalidated, and calls are served Ok(None) from it.
C7_NotFoundCached ==
    [][/\ \A c \in Callers :
             (pc[c] = "loading" /\ Returns(c) /\ result'[c] = Ok(None)) =>
                 /\ Absent(cache'[key[c]])
                 /\ CacheGet(cache', key[c]) = Some(None)
                 /\ CacheGet(cache', key[c]) # None
       /\ \A k \in Keys :
             (Absent(cache[k]) /\ ~Absent(cache'[k])) =>
                 \/ Tick /\ Expired(cfg, Aged(cache[k]))
                 \/ Invalidate(k)
                 \/ InvalidateAll]_vars

\* a call is served Ok(None) from the absent entry a load left behind
C7_Witness ==
    \E c \in Callers :
        /\ pc[c] = "done" /\ via[c] = "hit" /\ result[c] = Ok(None)
        /\ Absent(cache[key[c]])
        /\ CacheGet(cache, key[c]) = Some(None)

\* C8: differentiated expiry under the test's lifetimes (absent 1 < idle 2 <
\* present 3). No absent entry is as old as the absent-lifetime; when time
\* passes, an absent entry reaching that age is dropped (the engine's get
\* yields None and the next call misses) while a present entry stored at the
\* same moment stays.
C8_AbsentExpiresFirst ==
    /\ []( \A k \in Keys :
              Absent(cache[k]) => cache[k].sinceWrite < TestTtlForNone )
    /\ [][Tick =>
            \A k1, k2 \in Keys :
               (/\ Absent(cache[k1]) /\ Present(cache[k2])
                /\ cache[k1].sinceWrite = cache[k2].sinceWrite
                /\ cache[k1].sinceWrite + 1 >= TestTtlForNone) =>
                   /\ CacheGet(cache', k1) = None
                   /\ Present(cache'[k2])]_vars

\* the absent-lifetime has passed: the row is still cached, the key without
\* a row, whose load one call still holds as "no row", has lost its entry and
\* is being loaded again
C8_Witness ==
    \E k1, k2 \in Keys :
        /\ db[k1] = None /\ ~cache[k1].live
        /\ \E d \in Callers :
              pc[d] = "done" /\ key[d] = k1 /\ via[d] = "load"
                  /\ result[d] = Ok(None)
        /\ Loading(k1) # {}
        /\ Present(cache[k2])
        /\ cache[k2].sinceWrite >= TestTtlForNone
        /\ cache[k2].sinceWrite < TestTti

\* C9: time-to-idle. Every read of a present entry (a hit of try_get or the
\* engine's get) restarts its idle age; no present entry is idle for the
\* idle-lifetime; when time passes, a present entry idle for less than the
\* idle-lifetime (and younger than the present-lifetime) stays, and one idle
\* for the idle-lifetime is dropped, also when both were stored together.
C9_TimeToIdle ==
    /\ []( \A k \in Keys :
              Present(cache[k]) => cache[k].sinceAccess < TestTti )
    /\ [][/\ \A c \in Callers :
                (Returns(c) /\ via'[c] = "hit") =>
                    cache'[key'[c]].sinceAccess = 0
          /\ \A k \in Keys : Get(k) => cache'[k].sinceAccess = 0
          /\ Tick =>
                \A k \in Keys :
                    Present(cache[k]) =>
                        IF cache[k].sinceAccess + 1 >= TestTti
                        THEN ~cache'[k].live
                        ELSE cache[k].sinceWrite + 1 < TestTtl
                                 => Present(cache'[k])]_vars

\* two rows, the idle-lifetime after the first was stored: the one read in
\* between is still cached at that age, the other is gone
C9_Witness ==
    \E k1, k2 \in Keys :
        /\ Present(cache[k1])
        /\ cache[k1].sinceWrite >= TestTti
        /\ cache[k1].sinceAccess < TestTti
        /\ IsSome(db[k2]) /\ ~cache[k2].live

\* C10: time-to-live. No present entry is as old as the present-lifetime;
\* reads never make an entry younger; when time passes, a present entry
\* reaching the present-lifetime is dropped however recently it was read.
C10_TimeToLive ==
    /\ []( \A k \in Keys :
              Present(cache[k]) => cache[k].sinceWrite < TestTtl )
    /\ [][\A k \in Keys :
             /\ (cache[k].live /\ cache'[k].live) =>
                    cache'[k].sinceWrite >= cache[k].sinceWrite
             /\ (Tick /\ Present(cache[k])
                      /\ cache[k].sinceWrite + 1 >= TestTtl) =>
                    ~cache'[k].live]_vars

\* a row one unit short of its present-lifetime that has just been read
C10_Witness ==
    \E k \in Keys :
        /\ Present(cache[k])
        /\ cache[k].sinceWrite = TestTtl - 1
        /\ cache[k].sinceAccess = 0

\* C11 as stated: an invalidation removes the key's entry, and a call issued
\* when no loader has been invoked for its key since the key was last
\* invalidated is not served from the cache: it misses, so that the backing
\* store is queried again, also when a load was in flight at the invalidation.
C11_AlwaysRequeries ==
    [][\A k \in Keys :
          /\ (Invalidate(k) \/ InvalidateAll) => ~cache'[k].live
          /\ \A c \in Callers :
                (pc[c] = "idle" /\ pc'[c] # "idle" /\ key'[c] = k
                     /\ loads[k] = 0) =>
                    pc'[c] = "missed"]_vars

\* C12: no call stays pending forever. When the runtime keeps polling the
\* calls that can move and every load closure that has been started
\* completes, every call that has gone past the fast path, as the slot's
\* owner or parked on another caller's load, returns: Ok with the present or
\* absent outcome, or the shared error.
C12_EveryCallReturns ==
    \A c \in Callers :
        (pc[c] \in {"missed", "owner", "loading", "waiting", "woken"})
            ~> (pc[c] = "done" /\ result[c].tag \in {"Ok", "Err"})

\* the load has completed: its owner and the callers that were parked on it
\* all hold its outcome
C12_Witness ==
    \E o \in Callers :
        /\ pc[o] = "done" /\ via[o] = "load"
        /\ \A w \in tasks \ {o} :
              pc[w] = "done" /\ via[w] = "wait" /\ result[w] = result[o]

\* C13: waiter cancellation. When a call parked on another caller's load is
\* cancelled, nothing else moves: the waiter slot keeps its owner, whose load
\* goes on, no loader is invoked, the entry map and every other call are as
\* before; and when the owner resolves the load, every caller still parked
\* on it is woken with the owner's outcome and returns it when polled, unless
\* it is cancelled first, which again moves nothing else.
C13_WaiterCancellation ==
    [][/\ \A c \in Callers :
             (pc[c] = "woken" /\ pc'[c] # "woken") =>
                 /\ \/ pc'[c] = "done" /\ result'[c] = result[c]
                    \/ pc'[c] = "idle" /\ result'[c] = NoResult
                 /\ waiter' = waiter /\ loads' = loads /\ cache' = cache
                 /\ \A w \in Callers \ {c} :
                       /\ pc'[w] = pc[w] /\ key'[w] = key[w]
                       /\ result'[w] = result[w]
       /\ \A c \in Callers :
             (pc[c] = "waiting" /\ pc'[c] = "idle") =>
                 /\ waiter' = waiter
                 /\ waiter[key[c]] \in Callers \ {c}
                 /\ pc[waiter[key[c]]] \in {"owner", "loading"}
                 /\ loads' = loads
                 /\ cache' = cache
                 /\ \A w \in Callers \ {c} :
                       /\ pc'[w] = pc[w] /\ key'[w] = key[w]
                       /\ result'[w] = result[w]
       /\ \A k \in Keys :
             (waiter[k] \in Callers /\ Returns(waiter[k])) =>
                 \A w \in Waiting(k) :
                     pc'[w] = "woken" /\ result'[w] = result'[waiter[k]]]_vars

\* one parked call was cancelled; the load it was parked on has completed
\* as the key's only load and the other parked call holds its outcome
C13_Witness ==
    \E c, o, w \in Callers :
        /\ pc[c] = "idle" /\ via[c] = "dropped"
        /\ pc[o] = "done" /\ via[o] = "load"
        /\ pc[w] = "done" /\ via[w] = "wait" /\ key[w] = key[o]
        /\ result[w] = result[o]
        /\ result[o].tag = "Ok" /\ loads[key[o]] = 1

\* C20: at every instant at most one load closure per key is executing,
\* whatever the interleaving of calls by owned and by borrowed key, of
\* cancellations of parked and of loading calls, of invalidations and of
\* expirations.
C20_OneLoadInProgress ==
    \A k \in Keys : Cardinality(Loading(k)) <= 1

\* after the loading call was cancelled, one call by borrowed key runs the
\* key's second load alone while another call is parked on it
C20_Witness ==
    \E k \in Keys : \E c \in Loading(k) :
        /\ Loading(k) = {c}
        /\ ByRef(c)
        /\ loads[k] = 2
        /\ Waiting(k) # {}
        /\ \E d \in Callers : pc[d] = "idle" /\ via[d] = "aborted"

ClosureRun(c) == pc[c] = "loading" \/ (pc[c] = "done" /\ via[c] = "load")

\* C19 as stated: a call by borrowed key that returns without having
\* executed its own load closure (a hit, or a call that was merely parked on
\* another caller's load) has made no owned key.
C19_OwnedOnlyWhenLoading ==
    \A c \in Callers :
        (pc[c] = "done" /\ via[c] # "load") => owned[c] = 0

\* C19, amended: a call by borrowed key makes no owned key on a hit; on a
\* miss the engine makes one (for the waiter slot and the entry), also when
\* the call is then only parked on another caller's load or served by the
\* owner's second read; the load closure's key.to_owned() makes a second one
\* exactly when this call's closure is executed. A call by owned key makes
\* none.
C19_OwnedOnMissAndLoad ==
    \A c \in Callers :
        /\ ~ByRef(c) => owned[c] = 0
        /\ ByRef(c) =>
              owned[c] = IF ClosureRun(c) THEN 2
                         ELSE IF pc[c] = "done" /\ via[c] = "hit" THEN 0
                         ELSE 1

\* two calls by borrowed key: one ran its load closure (two owned keys), the
\* other was parked on that load and returned its outcome (one owned key);
\* a third call by borrowed key would now hit and make none
C19_Witness ==
    \E c, w \in Callers :
        /\ ByRef(c) /\ pc[c] = "done" /\ via[c] = "load" /\ owned[c] = 2
        /\ ByRef(w) /\ pc[w] = "done" /\ via[w] = "wait" /\ owned[w] = 1
        /\ key[w] = key[c] /\ result[w] = result[c]
        /\ cache[key[c]].live

\* C15 as stated: whatever the builder was given, time-to-idle and
\* time-to-live leave absent entries alone. When time passes, an absent entry
\* stays exactly as long as its absent-lifetime, counted from its creation,
\* has not elapsed.
C15_AbsentOnlyByNoneTtl ==
    [][Tick =>
          \A k \in Keys :
              Absent(cache[k]) =>
                  (cache'[k].live <=> Unwrap(cache[k].expIn) > 1)]_vars

\* C17: the expiry policy depends on the marker's variant only. Whatever the
\* builder was given, for every key expire_after_create answers "no
\* override" for a present value and the configured absent-lifetime for
\* None; every entry created, at whatever moment, carries exactly that; and
\* the configured absent-lifetime is the default of 60 seconds from
\* for_query on until time_to_live_for_none is called.
C17_ExpiryByVariant ==
    /\ cfg.expiry.ttl_for_none = DefaultTtlForNone
    /\ [](\A k \in Keys : \A v \in Values(k) :
              expire_after_create(cfg.expiry, k, v) =
                  IF v = None THEN Some(cfg.expiry.ttl_for_none) ELSE None)
    /\ [][/\ cfg'.expiry # cfg.expiry =>
                \E d \in Durations : SetTimeToLiveForNone(d)
          /\ \A k \in Keys :
                (~cache[k].live /\ cache'[k].live) =>
                    cache'[k].expIn =
                        IF cache'[k].val = None
                        THEN Some(cfg.expiry.ttl_for_none) ELSE None]_vars

\* time_to_live_for_none was never called, time_to_idle and time_to_live
\* were: an absent entry has just been created with the 60 seconds
C17_Witness ==
    \E k \in Keys :
        /\ IsSome(cfg.time_to_idle) /\ IsSome(cfg.time_to_live)
        /\ cfg.expiry = DefaultExpiry(DefaultTtlForNone)
        /\ Absent(cache[k])
        /\ cache[k].sinceWrite = 0
        /\ cache[k].expIn = Some(DefaultTtlForNone)

\* C16 as stated: in every reachable state the variant of a key's marker
\* decides its expiry rule, also after the entry was replaced by a marker of
\* the other variant: an absent marker has a per-entry deadline no later
\* than the absent-lifetime after it was stored, a present marker has no
\* per-entry deadline.
C16_VariantDecidesExpiry ==
    \A k \in Keys :
        /\ Absent(cache[k]) =>
              /\ IsSome(cache[k].expIn)
              /\ Unwrap(cache[k].expIn) + cache[k].sinceWrite
                     <= cfg.expiry.ttl_for_none
        /\ Present(cache[k]) => cache[k].expIn = None

\* C18: no automatic retry. A call executes its load closure at most once:
\* the closure starts only in the owner of the waiter slot, which a call
\* becomes once, after its miss, and when the closure ends the call returns.
\* When it ends in failure the call returns that failure, the slot is free
\* and no loader is invoked in that step; the next load of the key belongs
\* to a call issued later.
C18_NoRetry ==
    [][\A c \in Callers :
          /\ (pc[c] # "loading" /\ pc'[c] = "loading") => pc[c] = "owner"
          /\ (pc[c] # "owner" /\ pc'[c] = "owner") => pc[c] = "missed"
          /\ (pc[c] # "missed" /\ pc'[c] = "missed") => pc[c] = "idle"
          /\ (pc[c] = "loading" /\ pc'[c] # "loading") => Returns(c)
          /\ (pc[c] = "loading" /\ Returns(c) /\ result'[c].tag = "Err") =>
                /\ result'[c] = Err(c)
                /\ waiter'[key[c]] = 0
                /\ \A d \in Callers : pc'[d] # "loading" \/ key'[d] # key[c]
                /\ loads'[key[c]] = 0]_vars

\* a load failed: its caller and the caller parked on it hold the failure,
\* nobody is loading the key and its waiter slot is free
C18_Witness ==
    \E c, w \in Callers :
        /\ pc[c] = "done" /\ via[c] = "load" /\ result[c] = Err(c)
        /\ pc[w] = "done" /\ via[w] = "wait" /\ result[w] = Err(c)
        /\ key[w] = key[c]
        /\ Loading(key[c]) = {} /\ waiter[key[c]] = 0
        /\ loads[key[c]] = 0

\* the calls for k that try again after the load they were parked on was
\* dropped, and have not yet taken or parked on the waiter slot again
Retrying(k) ==
    {w \in Callers : key[w] = k /\ pc[w] = "missed" /\ via[w] = "retry"}

\* the call that owns a waiter slot is cancelled in this step
Aborts(c) == pc[c] \in {"owner", "loading"} /\ pc'[c] = "idle"

\* unless owners are cancelled again and again, every call that tries again
\* returns or is cancelled itself
RetriesEnd ==
    \/ []<><<\E c \in Callers : Aborts(c)>>_vars
    \/ \A w \in Callers :
          (pc[w] = "missed" /\ via[w] = "retry")
              ~> (pc[w] \in {"done", "idle"})

\* C21 as stated: when the loading call is cancelled, its load is dropped
\* and stores nothing, the parked calls are woken, ONE OF THEM takes the
\* waiter slot and executes its own load closure, and all of them eventually
\* return.
C21_WaiterTakesOver ==
    /\ [][\A c \in Callers :
             /\ Aborts(c) =>
                   /\ cache' = cache
                   /\ waiter'[key[c]] = 0
                   /\ \A w \in Waiting(key[c]) : pc'[w] = "missed"
             /\ (pc[c] = "missed" /\ pc'[c] = "owner"
                     /\ Retrying(key[c]) # {}) =>
                   c \in Retrying(key[c])]_vars
    /\ RetriesEnd


\* C21, amended: when the call that owns the waiter slot is cancelled, its
\* load is dropped: no entry is inserted, no result is handed out, the slot
\* is released and every parked call is woken to try again, so parked calls
\* always have a live owner working for them. The slot is then taken by a
\* call for the key that has missed -- one of the woken calls, or a call that
\* missed meanwhile and was never parked -- and that call's own load closure
\* is a further loader invocation of the same miss episode. A woken call that
\* parks again returns what the owner of the slot returns, and unless owners
\* are cancelled again and again every woken call returns or is cancelled.
C21_AbortHandsOver ==
    /\ [](\A k \in Keys :
             Waiting(k) # {} =>
                /\ waiter[k] \in Callers
                /\ key[waiter[k]] = k
                /\ pc[waiter[k]] \in {"owner", "loading"})
    /\ [][\A c \in Callers :
             /\ Aborts(c) =>
                   /\ cache' = cache /\ loads' = loads /\ result' = result
                   /\ waiter'[key[c]] = 0
                   /\ \A w \in Waiting(key[c]) :
                         pc'[w] = "missed" /\ via'[w] = "retry"
             /\ (pc[c] # "owner" /\ pc'[c] = "owner") =>
                   /\ pc[c] = "missed"
                   /\ waiter[key[c]] = 0 /\ waiter'[key[c]] = c
             /\ (via[c] = "retry" /\ pc[c] = "owner"
                     /\ pc'[c] = "loading") =>
                   /\ ~cache[key[c]].live
                   /\ loads'[key[c]] = Bump(loads[key[c]])
             /\ (via[c] = "retry" /\ pc[c] = "woken" /\ Returns(c)) =>
                   result'[c] = result[c]
             /\ (via[c] = "retry" /\ pc[c] = "waiting"
                     /\ pc'[c] = "woken") =>
                   /\ waiter[key[c]] \in Callers
                   /\ Returns(waiter[key[c]])
                   /\ result'[c] = result'[waiter[key[c]]]
                   /\ result'[c].tag \in {"Ok", "Err"}]_vars
    /\ RetriesEnd

\* after the loading call was cancelled, one of the two calls it woke runs
\* the key's second load and the other is parked on it
C21_Witness ==
    \E k \in Keys : \E c \in Loading(k) : \E w \in Waiting(k) :
        /\ via[c] = "retry" /\ via[w] = "retry"
        /\ waiter[k] = c
        /\ loads[k] = 2
        /\ ~cache[k].live
        /\ \E d \in Callers : pc[d] = "idle" /\ via[d] = "aborted"

\* a call that was woken by the cancellation has returned the outcome of the
\* load of a call that was never parked on the cancelled one
C21_WitnessNewcomer ==
    \E c, w \in Callers :
        /\ pc[c] = "done" /\ via[c] = "load"
        /\ pc[w] = "done" /\ via[w] = "wait" /\ key[w] = key[c]
        /\ result[w] = result[c]
        /\ \E d \in Callers : pc[d] = "idle" /\ via[d] = "aborted"


\* C22: hits on an absent entry do not postpone its expiry. Whatever
\* absent-lifetime the builder was given, an absent entry's deadline is always
\* the absent-lifetime minus its age since creation and is never reached by a
\* live entry; a step that reads it (a try_get hit, the engine's get)
\* leaves the deadline, the age since creation and the value
\* as they are; and a time step takes one unit off the deadline and removes
\* the entry when the last unit goes, however recently it was read.
C22_ReadsDoNotPostpone ==
    /\ [](\A k \in Keys :
             Absent(cache[k]) =>
                /\ IsSome(cache[k].expIn)
                /\ Unwrap(cache[k].expIn) > 0
                /\ cache[k].sinceWrite < MaxAge =>
                      Unwrap(cache[k].expIn) + cache[k].sinceWrite
                          = cfg.expiry.ttl_for_none)
    /\ [][\A k \in Keys :
             /\ (Absent(cache[k]) /\ cache'[k].live
                     /\ cache'[k].sinceAccess = 0) =>
                   /\ cache'[k].expIn = cache[k].expIn
                   /\ cache'[k].sinceWrite = cache[k].sinceWrite
                   /\ cache'[k].val = cache[k].val
             /\ (Absent(cache[k]) /\ cache'[k] # cache[k]
                     /\ (~cache'[k].live \/ cache'[k].sinceAccess > 0)) =>
                   IF Unwrap(cache[k].expIn) = 1 THEN ~cache'[k].live
                   ELSE cache'[k].live =>
                           cache'[k].expIn
                               = Some(Unwrap(cache[k].expIn) - 1)]_vars

\* an absent entry with no idle or live limit, two time units old and one
\* unit before its deadline, has just been served to a try_get call
C22_Witness ==
    \E k \in Keys : \E c \in Callers :
        /\ cfg.time_to_idle = None /\ cfg.time_to_live = None
        /\ Absent(cache[k])
        /\ cache[k].sinceWrite = 2 /\ cache[k].sinceAccess = 0
        /\ cache[k].expIn = Some(1)
        /\ pc[c] = "done" /\ key[c] = k /\ via[c] = "hit"
        /\ result[c] = Ok(None)


\* what the builder call of this step leaves alone
KeepsOtherSettings ==
    /\ cfg'.time_to_idle = cfg.time_to_idle
    /\ cfg'.time_to_live = cfg.time_to_live
    /\ cfg'.max_capacity = cfg.max_capacity
    /\ cfg'.query = cfg.query

\* C23: time_to_live_for_none and expire_after write the same expiry-policy
\* slot of the builder. After time_to_live_for_none(d) the slot holds
\* DefaultExpiry with absent-lifetime d and nothing of a custom policy set
\* before; after expire_after(custom) it holds the custom policy and nothing
\* of an absent-lifetime set before; either call leaves the idle limit, the
\* live limit, the capacity and the query as they were; build changes none of
\* the settings; and every entry the built cache creates takes its deadline
\* from the policy in the slot alone.
C23_LastPolicyWins ==
    [][/\ \A d \in Durations :
             /\ SetTimeToLiveForNone(d) =>
                   /\ cfg'.expiry = DefaultExpiry(d)
                   /\ KeepsOtherSettings
             /\ SetExpireAfter(CustomExpiry(d)) =>
                   /\ cfg'.expiry = CustomExpiry(d)
                   /\ KeepsOtherSettings
       /\ Build => cfg' = cfg
       /\ tasks # {} => cfg' = cfg
       /\ \A k \in Keys :
             (~cache[k].live /\ cache'[k].live) =>
                 cache'[k].expIn =
                     IF cfg.expiry \in {CustomExpiry(d) : d \in Durations}
                     THEN Some(cfg.expiry.lifetime)
                     ELSE IF cache'[k].val = None
                          THEN Some(cfg.expiry.ttl_for_none)
                          ELSE None]_vars

\* a cache built with a custom policy, idle and live limits and another
\* capacity has just created a present entry with the custom lifetime
C23_Witness ==
    \E k \in Keys : \E d \in Durations :
        /\ tasks # {}
        /\ cfg.expiry = CustomExpiry(d)
        /\ IsSome(cfg.time_to_idle) /\ IsSome(cfg.time_to_live)
        /\ cfg.max_capacity # TestCapacity
        /\ Present(cache[k])
        /\ cache[k].sinceWrite = 0
        /\ cache[k].expIn = Some(d)

=============================================================================
